---- MODULE Spec2Model ----
(***************************************************************************)
(* The knowledge-based Minesweeper agent of src/minesweeper.py:            *)
(* Sentence, MinesweeperAI and the board (Minesweeper.nearby_mines) that   *)
(* supplies the hints.  update_knowledge is recursive; its activations are *)
(* kept on an explicit stack of frames.                                    *)
(***************************************************************************)
EXTENDS Integers, FiniteSets, Sequences, TLC

\* ---------------------------------------------------------------- bounds
Height == 2
Width == 4
MaxMines == 3
\* raw update_knowledge calls draw their cells from the first RawCols columns
\* of row 0, and a driver makes at most MaxCalls of them
RawCols == 3
MaxCalls == 3
\* a driver that is not the board gives add_knowledge a count up to MaxHint
MaxHint == 1
MaxDepth == 6

VARIABLES board, moves_made, mines, safes, knowledge, stack, status, ret, calls,
          before, prior

vars == <<board, moves_made, mines, safes, knowledge, stack, status, ret, calls,
          before, prior>>

Cells == (0 .. Height - 1) \X (0 .. Width - 1)

RawCells == {c \in Cells : c[1] = 0 /\ c[2] < RawCols}

\* ------------------------------------------------------------- the board
\* Minesweeper.nearby_mines: mines within one row and column of cell
nearby_mines(b, cell) ==
    Cardinality({m \in b : /\ m # cell
                           /\ m[1] \in (cell[1] - 1) .. (cell[1] + 1)
                           /\ m[2] \in (cell[2] - 1) .. (cell[2] + 1)
                           /\ m \in Cells})

\* -------------------------------------------------------------- Sentence
\* faulty variant: the count is kept when every cell is a mine
Sentence_keeps_count(cells, count) ==
    IF Cardinality(cells) = count
    THEN [cells |-> {}, mines |-> cells, safes |-> {}, count |-> count]
    ELSE IF count = 0
         THEN [cells |-> {}, mines |-> {}, safes |-> cells, count |-> count]
         ELSE [cells |-> cells, mines |-> {}, safes |-> {}, count |-> count]

\* Sentence.__init__
Sentence(cells, count) ==
    IF Cardinality(cells) = count
    THEN [cells |-> {}, mines |-> cells, safes |-> {}, count |-> 0]
    ELSE IF count = 0
         THEN [cells |-> {}, mines |-> {}, safes |-> cells, count |-> count]
         ELSE [cells |-> cells, mines |-> {}, safes |-> {}, count |-> count]

\* Sentence.__eq__
Sentence_eq(a, b) == a.cells = b.cells /\ a.count = b.count

\* `sentence not in self.knowledge` compares with __eq__
InKnowledge(s, kn) == \E k \in DOMAIN kn : Sentence_eq(kn[k], s)

\* faulty variant: the sentences with no cells left are dropped when one is added
AddSentence_pruning(kn, s) ==
    LET keep == SelectSeq(kn, LAMBDA t : t.cells # {})
    IN IF InKnowledge(s, keep) THEN keep ELSE Append(keep, s)

\* `if sentence not in self.knowledge: self.knowledge.append(sentence)`
AddSentence(kn, s) == IF InKnowledge(s, kn) THEN kn ELSE Append(kn, s)

\* faulty variant: the count goes down whether or not the cell is in the sentence
Sentence_mark_mine_unguarded(s, cell) ==
    [s EXCEPT !.mines = @ \cup {cell}, !.cells = @ \ {cell}, !.count = @ - 1]

\* Sentence.mark_mine
Sentence_mark_mine(s, cell) ==
    IF cell \in s.cells
    THEN [s EXCEPT !.mines = @ \cup {cell}, !.cells = @ \ {cell}, !.count = @ - 1]
    ELSE s

\* faulty variant: marking a cell safe lowers the count as marking a mine does
Sentence_mark_safe_decrements(s, cell) ==
    IF cell \in s.cells
    THEN [s EXCEPT !.safes = @ \cup {cell}, !.cells = @ \ {cell}, !.count = @ - 1]
    ELSE s

\* Sentence.mark_safe
Sentence_mark_safe(s, cell) ==
    IF cell \in s.cells
    THEN [s EXCEPT !.safes = @ \cup {cell}, !.cells = @ \ {cell}]
    ELSE s

\* --------------------------------------------------------- MinesweeperAI
\* The part of the agent that mark_mine, mark_safe and update_knowledge
\* change, as a record kb = [mines, safes, knowledge].
KB == [mines |-> mines, safes |-> safes, knowledge |-> knowledge]

\* the whole agent: MinesweeperAI.__init__'s fields
AI == [moves_made |-> moves_made, mines |-> mines, safes |-> safes,
       knowledge |-> knowledge]

\* MinesweeperAI.mark_mine
mark_mine(kb, cell) ==
    [kb EXCEPT !.mines = @ \cup {cell},
               !.knowledge = [k \in DOMAIN @ |-> Sentence_mark_mine(@[k], cell)]]

\* MinesweeperAI.mark_safe
mark_safe(kb, cell) ==
    [kb EXCEPT !.safes = @ \cup {cell},
               !.knowledge = [k \in DOMAIN @ |-> Sentence_mark_safe(@[k], cell)]]

\* `for safe in safes: self.mark_safe(safe)`
RECURSIVE MarkSafes(_, _)
MarkSafes(kb, S) ==
    IF S = {} THEN kb
    ELSE LET x == CHOOSE x \in S : TRUE
         IN MarkSafes(mark_safe(kb, x), S \ {x})

\* `for mine in mines: self.mark_mine(mine)`
RECURSIVE MarkMines(_, _)
MarkMines(kb, S) ==
    IF S = {} THEN kb
    ELSE LET x == CHOOSE x \in S : TRUE
         IN MarkMines(mark_mine(kb, x), S \ {x})

\* faulty variant: the scan starts from empty sets, not from what the new sentence
\* itself resolved
Scan_unseeded(kn, s0, m0) ==
    [safes |-> UNION {kn[k].cells : k \in {k \in DOMAIN kn : kn[k].count = 0}},
     mines |-> UNION {kn[k].cells :
                 k \in {k \in DOMAIN kn : /\ kn[k].count # 0
                                          /\ Cardinality(kn[k].cells) = kn[k].count}}]

\* the scan `for st in self.knowledge` that collects the cells of the
\* sentences that have become all safe or all mines, added to s0 and m0
Scan(kn, s0, m0) ==
    [safes |-> s0 \cup UNION {kn[k].cells : k \in {k \in DOMAIN kn : kn[k].count = 0}},
     mines |-> m0 \cup UNION {kn[k].cells :
                 k \in {k \in DOMAIN kn : /\ kn[k].count # 0
                                          /\ Cardinality(kn[k].cells) = kn[k].count}}]

\* the test of the deduction rule on the pair (s1, s2): 0 no call,
\* 1 the call for s1.cells <= s2.cells, 2 the call for s1.cells > s2.cells
Rule(s1, s2) ==
    IF Sentence_eq(s1, s2) \/ s1.count = 0 \/ s2.count = 0 THEN 0
    ELSE IF s1.cells \subseteq s2.cells THEN 1
    ELSE IF s2.cells \subseteq s1.cells /\ s1.cells # s2.cells THEN 2
    ELSE 0

\* The two nested for loops over copies of knowledge, from the pair (i, j)
\* on: the next pair for which the rule makes a call.  n1 and n2 are the
\* lengths of the outer and inner copy; a new inner copy is taken for each s1.
RECURSIVE NextPair(_, _, _, _, _)
NextPair(kn, n1, i, n2, j) ==
    IF i > n1 THEN [found |-> FALSE, i |-> i, n2 |-> n2, j |-> j]
    ELSE IF j > n2 THEN NextPair(kn, n1, i + 1, Len(kn), 1)
    ELSE IF Rule(kn[i], kn[j]) # 0 THEN [found |-> TRUE, i |-> i, n2 |-> n2, j |-> j]
    ELSE NextPair(kn, n1, i, n2, j + 1)

\* faulty variant: the count of the larger sentence is passed on as it is
RuleArgs_keeps_count(s1, s2) ==
    IF Rule(s1, s2) = 1
    THEN [cells |-> s2.cells \ s1.cells, count |-> s2.count]
    ELSE [cells |-> s1.cells \ s2.cells, count |-> s1.count]

\* the arguments of the recursive call the rule makes for (s1, s2)
RuleArgs(s1, s2) ==
    IF Rule(s1, s2) = 1
    THEN [cells |-> s2.cells \ s1.cells, count |-> s2.count - s1.count]
    ELSE [cells |-> s1.cells \ s2.cells, count |-> s1.count - s2.count]

\* faulty variant: only the four neighbours that share an edge with the cell
Neighbors_orthogonal(cell, moves) ==
    {n \in Cells : /\ n # cell
                   /\ \/ n[1] = cell[1] /\ n[2] \in (cell[2] - 1) .. (cell[2] + 1)
                      \/ n[2] = cell[2] /\ n[1] \in (cell[1] - 1) .. (cell[1] + 1)
                   /\ n \notin moves}

\* the in-bounds neighbours of cell that are not moves made
Neighbors(cell, moves) ==
    {n \in Cells : /\ n # cell
                   /\ n[1] \in (cell[1] - 1) .. (cell[1] + 1)
                   /\ n[2] \in (cell[2] - 1) .. (cell[2] + 1)
                   /\ n \notin moves}

\* faulty variant: a neighbour known to be safe is kept in the new sentence
NewSentence_keeps_safes(cell, count, moves, kb) ==
    LET nb == Neighbors(cell, moves)
    IN [cells |-> {n \in nb : n \notin kb.mines},
        count |-> count - Cardinality(nb \cap kb.mines)]

\* faulty variant: the count is not lowered for a neighbour known to be a mine
NewSentence_no_decrement(cell, count, moves, kb) ==
    LET nb == Neighbors(cell, moves)
    IN [cells |-> {n \in nb : n \notin kb.mines /\ n \notin kb.safes},
        count |-> count]

\* add_knowledge, lines 278-287: the cells and the count of the new sentence.
\* A neighbour known to be a mine lowers the count; one known to be a mine
\* or safe is left out.
NewSentence(cell, count, moves, kb) ==
    LET nb == Neighbors(cell, moves)
    IN [cells |-> {n \in nb : n \notin kb.mines /\ n \notin kb.safes},
        count |-> count - Cardinality(nb \cap kb.mines)]

\* ---------------------------------------------------------------- frames
NoRet == [op |-> "none"]

\* the local `sentence` before line 208 sets it
NoSentence == [cells |-> {}, mines |-> {}, safes |-> {}, count |-> 0]

\* an activation of update_knowledge(cells, count); entry is the agent's
\* state at the call
Frame(cells, count, kb) ==
    [cells |-> cells, count |-> count, pc |-> "start", sentence |-> NoSentence,
     lsafes |-> {}, lmines |-> {}, l0 |-> 0, n1 |-> 0, i |-> 0, n2 |-> 0, j |-> 0,
     entry |-> kb]

Top == stack[Len(stack)]

SetTop(f) == [stack EXCEPT ![Len(stack)] = f]

\* A call that repeats, with the same arguments and the same agent state, a
\* call that is still active: update_knowledge is deterministic, so the
\* recursion never ends and the interpreter raises RecursionError.
Repeats(cells, count, kb) ==
    \E k \in DOMAIN stack :
        /\ stack[k].cells = cells
        /\ stack[k].count = count
        /\ stack[k].entry = kb

Idle == status = "idle" /\ stack = <<>>

\* no agent was used before this one
NoPrior == [calls |-> <<>>, mines |-> {}, safes |-> {}, used |-> FALSE]

\* ------------------------------------------------------------------ Init
InitAI ==
    /\ moves_made = {}
    /\ mines = {}
    /\ safes = {}
    /\ knowledge = <<>>
    /\ stack = <<>>
    /\ status = "idle"
    /\ ret = NoRet
    /\ calls = <<>>
    /\ before = AI
    /\ prior = NoPrior

Init ==
    /\ board \in {b \in SUBSET Cells : Cardinality(b) <= MaxMines}
    /\ InitAI

\* --------------------------------------------------------------- actions
\* faulty variant: the cell played is recorded as a move but not marked safe
add_knowledge_no_mark(cell, count) ==
    /\ Idle
    /\ LET moves == moves_made \cup {cell}
           new == NewSentence(cell, count, moves, KB)
       IN /\ moves_made' = moves
          /\ stack' = <<Frame(new.cells, new.count, KB)>>
    /\ status' = "running"
    /\ ret' = NoRet
    /\ UNCHANGED <<prior, board, mines, safes, knowledge>>

\* MinesweeperAI.add_knowledge(cell, count) up to its call of
\* update_knowledge; the count is the board's for a cell that is no mine
add_knowledge(cell, count) ==
    /\ Idle
    /\ LET kb1 == mark_safe(KB, cell)
           moves == moves_made \cup {cell}
           new == NewSentence(cell, count, moves, kb1)
       IN /\ moves_made' = moves
          /\ safes' = kb1.safes
          /\ knowledge' = kb1.knowledge
          /\ stack' = <<Frame(new.cells, new.count, kb1)>>
    /\ status' = "running"
    /\ ret' = NoRet
    /\ UNCHANGED <<prior, board, mines>>

\* the game: the cell played is no mine and the count is the board's
AddKnowledge ==
    /\ \E cell \in Cells \ board : add_knowledge(cell, nearby_mines(board, cell))
    /\ UNCHANGED <<prior, calls, before>>

\* update_knowledge, lines 208-224: form the sentence, add it when no equal
\* one is there, and scan for what it reveals
UKStart ==
    /\ status = "running" /\ Top.pc = "start"
    /\ LET sentence == Sentence(Top.cells, Top.count)
           kn == AddSentence(knowledge, sentence)
           sc == Scan(kn, sentence.safes, sentence.mines)
       IN /\ knowledge' = kn
          /\ stack' = SetTop([Top EXCEPT !.pc = "propagate", !.sentence = sentence,
                                         !.lsafes = sc.safes, !.lmines = sc.mines])
    /\ ret' = NoRet
    /\ UNCHANGED <<prior, board, moves_made, mines, safes, status, calls, before>>

\* faulty variant: the knowledge is not scanned again after the marking
PropagateRound_once ==
    /\ status = "running" /\ Top.pc = "propagate"
    /\ Top.lsafes # {} \/ Top.lmines # {}
    /\ LET kb2 == MarkMines(MarkSafes(KB, Top.lsafes), Top.lmines)
       IN /\ mines' = kb2.mines
          /\ safes' = kb2.safes
          /\ knowledge' = kb2.knowledge
          /\ stack' = SetTop([Top EXCEPT !.lsafes = {}, !.lmines = {}])
    /\ ret' = NoRet
    /\ UNCHANGED <<prior, board, moves_made, status, calls, before>>

\* one turn of `while len(safes) > 0 or len(mines) > 0`
PropagateRound ==
    /\ status = "running" /\ Top.pc = "propagate"
    /\ Top.lsafes # {} \/ Top.lmines # {}
    /\ LET kb2 == MarkMines(MarkSafes(KB, Top.lsafes), Top.lmines)
           sc == Scan(kb2.knowledge, {}, {})
       IN /\ mines' = kb2.mines
          /\ safes' = kb2.safes
          /\ knowledge' = kb2.knowledge
          /\ stack' = SetTop([Top EXCEPT !.lsafes = sc.safes, !.lmines = sc.mines])
    /\ ret' = NoRet
    /\ UNCHANGED <<prior, board, moves_made, status, calls, before>>

\* faulty variant: l0 starts at the length of knowledge, so no pass is made
PropagateDone_no_pass ==
    /\ status = "running" /\ Top.pc = "propagate"
    /\ Top.lsafes = {} /\ Top.lmines = {}
    /\ stack' = SetTop([Top EXCEPT !.pc = "while", !.l0 = Len(knowledge)])
    /\ ret' = NoRet
    /\ UNCHANGED <<prior, board, moves_made, mines, safes, knowledge, status, calls, before>>

\* the propagation loop ends; l0 = 0
PropagateDone ==
    /\ status = "running" /\ Top.pc = "propagate"
    /\ Top.lsafes = {} /\ Top.lmines = {}
    /\ stack' = SetTop([Top EXCEPT !.pc = "while", !.l0 = 0])
    /\ ret' = NoRet
    /\ UNCHANGED <<prior, board, moves_made, mines, safes, knowledge, status, calls, before>>

\* `while l0 < len(self.knowledge)` is true: a new pass over the pairs
ElimPass ==
    /\ status = "running" /\ Top.pc = "while"
    /\ Top.l0 < Len(knowledge)
    /\ stack' = SetTop([Top EXCEPT !.pc = "pairs", !.l0 = Len(knowledge),
                                   !.n1 = Len(knowledge), !.i = 1,
                                   !.n2 = Len(knowledge), !.j = 1])
    /\ ret' = NoRet
    /\ UNCHANGED <<prior, board, moves_made, mines, safes, knowledge, status, calls, before>>

\* the pass goes on to the next pair the rule applies to and makes the
\* recursive call
ElimCall ==
    /\ status = "running" /\ Top.pc = "pairs"
    /\ LET np == NextPair(knowledge, Top.n1, Top.i, Top.n2, Top.j)
           args == RuleArgs(knowledge[np.i], knowledge[np.j])
       IN /\ np.found
          /\ ~Repeats(args.cells, args.count, KB)
          /\ Len(stack) < MaxDepth
          /\ stack' = Append(SetTop([Top EXCEPT !.i = np.i, !.n2 = np.n2,
                                                !.j = np.j + 1]),
                             Frame(args.cells, args.count, KB))
    /\ ret' = NoRet
    /\ UNCHANGED <<prior, board, moves_made, mines, safes, knowledge, status, calls, before>>

\* the recursive call repeats an active one: the recursion does not end and
\* the interpreter raises RecursionError, which unwinds every activation
ElimDiverge ==
    /\ status = "running" /\ Top.pc = "pairs"
    /\ LET np == NextPair(knowledge, Top.n1, Top.i, Top.n2, Top.j)
           args == RuleArgs(knowledge[np.i], knowledge[np.j])
       IN /\ np.found
          /\ Repeats(args.cells, args.count, KB)
    /\ status' = "RecursionError"
    /\ stack' = <<>>
    /\ ret' = NoRet
    /\ UNCHANGED <<prior, board, moves_made, mines, safes, knowledge, calls, before>>

\* the pass ends: no further pair makes a call
ElimPassDone ==
    /\ status = "running" /\ Top.pc = "pairs"
    /\ ~NextPair(knowledge, Top.n1, Top.i, Top.n2, Top.j).found
    /\ stack' = SetTop([Top EXCEPT !.pc = "while"])
    /\ ret' = NoRet
    /\ UNCHANGED <<prior, board, moves_made, mines, safes, knowledge, status, calls, before>>

\* `while l0 < len(self.knowledge)` is false: update_knowledge returns
Return ==
    /\ status = "running" /\ Top.pc = "while"
    /\ Top.l0 >= Len(knowledge)
    /\ stack' = SubSeq(stack, 1, Len(stack) - 1)
    /\ status' = IF Len(stack) = 1 THEN "idle" ELSE "running"
    /\ ret' = [op |-> "update_knowledge", cells |-> Top.cells, count |-> Top.count,
               depth |-> Len(stack)]
    /\ UNCHANGED <<prior, board, moves_made, mines, safes, knowledge, calls, before>>

\* MinesweeperAI.make_safe_move: the first safe cell, in the set's iteration
\* order, that is no move made; None (<<>>) when there is none
None == <<>>

\* faulty variant: a safe cell is returned even when it is a move made
make_safe_move_any ==
    /\ Idle
    /\ \/ \E safe \in safes : ret' = [op |-> "make_safe_move", value |-> safe]
       \/ /\ safes = {}
          /\ ret' = [op |-> "make_safe_move", value |-> None]
    /\ UNCHANGED <<prior, board, moves_made, mines, safes, knowledge, stack, status,
                   calls, before>>

make_safe_move ==
    /\ Idle
    /\ \/ \E safe \in safes \ moves_made :
             ret' = [op |-> "make_safe_move", value |-> safe]
       \/ /\ safes \ moves_made = {}
          /\ ret' = [op |-> "make_safe_move", value |-> None]
    /\ UNCHANGED <<prior, board, moves_made, mines, safes, knowledge, stack, status,
                   calls, before>>

\* faulty variant: a cell known to be a mine may be drawn
make_random_move_ignores_mines ==
    /\ Idle
    /\ \E move \in Cells :
          /\ ~(move \in moves_made)
          /\ ret' = [op |-> "make_random_move", value |-> move]
    /\ UNCHANGED <<prior, board, moves_made, mines, safes, knowledge, stack, status,
                   calls, before>>

\* MinesweeperAI.make_random_move: draws cells of the board until one is
\* neither a move made nor a known mine; with no such cell it does not return
make_random_move ==
    /\ Idle
    /\ \E move \in Cells :
          /\ ~(move \in moves_made \/ move \in mines)
          /\ ret' = [op |-> "make_random_move", value |-> move]
    /\ UNCHANGED <<prior, board, moves_made, mines, safes, knowledge, stack, status,
                   calls, before>>

\* make_random_move when every cell is a move made or a known mine: the
\* loop of line 314 never ends
make_random_move_loops ==
    /\ Idle
    /\ \A move \in Cells : move \in moves_made \/ move \in mines
    /\ status' = "looping"
    /\ ret' = NoRet
    /\ UNCHANGED <<prior, board, moves_made, mines, safes, knowledge, stack, calls,
                   before>>

\* A driver other than the game calls the agent's methods with any
\* arguments: update_knowledge(cells, count)
CallUpdateKnowledge ==
    /\ Idle /\ Len(calls) < MaxCalls
    /\ \E cells \in SUBSET RawCells : \E count \in 0 .. Cardinality(cells) :
          /\ stack' = <<Frame(cells, count, KB)>>
          /\ calls' = Append(calls, [op |-> "update_knowledge", cells |-> cells,
                                     count |-> count])
    /\ status' = "running"
    /\ before' = AI
    /\ ret' = NoRet
    /\ UNCHANGED <<prior, board, moves_made, mines, safes, knowledge>>

\* mark_safe(cell) called by the driver
CallMarkSafe ==
    /\ Idle /\ Len(calls) < MaxCalls
    /\ \E cell \in RawCells :
          /\ safes' = mark_safe(KB, cell).safes
          /\ mines' = mark_safe(KB, cell).mines
          /\ knowledge' = mark_safe(KB, cell).knowledge
          /\ calls' = Append(calls, [op |-> "mark_safe", cells |-> {cell}, count |-> 0])
    /\ before' = AI
    /\ ret' = [op |-> "mark_safe"]
    /\ UNCHANGED <<prior, board, moves_made, stack, status>>

\* mark_mine(cell) called by the driver
CallMarkMine ==
    /\ Idle /\ Len(calls) < MaxCalls
    /\ \E cell \in RawCells :
          /\ safes' = mark_mine(KB, cell).safes
          /\ mines' = mark_mine(KB, cell).mines
          /\ knowledge' = mark_mine(KB, cell).knowledge
          /\ calls' = Append(calls, [op |-> "mark_mine", cells |-> {cell}, count |-> 0])
    /\ before' = AI
    /\ ret' = [op |-> "mark_mine"]
    /\ UNCHANGED <<prior, board, moves_made, stack, status>>

\* add_knowledge(cell, count) called by the driver with any count
CallAddKnowledge ==
    /\ Len(calls) < MaxCalls
    /\ \E cell \in RawCells : \E count \in 0 .. MaxHint :
          /\ add_knowledge(cell, count)
          /\ calls' = Append(calls, [op |-> "add_knowledge", cells |-> {cell},
                                     count |-> count])
    /\ before' = AI

UpdateKnowledgeSteps ==
    \/ UKStart
    \/ PropagateRound
    \/ PropagateDone
    \/ ElimPass
    \/ ElimCall
    \/ ElimDiverge
    \/ ElimPassDone
    \/ Return

Next ==
    \/ AddKnowledge
    \/ make_safe_move
    \/ make_random_move
    \/ make_random_move_loops
    \/ UpdateKnowledgeSteps

\* the agent in a game: hints are the board's
Spec == Init /\ [][Next]_vars

InitRaw ==
    /\ board = {}
    /\ InitAI

NextRaw ==
    \/ CallUpdateKnowledge
    \/ CallMarkSafe
    \/ CallMarkMine
    \/ CallAddKnowledge
    \/ make_safe_move
    \/ make_random_move
    \/ UpdateKnowledgeSteps

\* the agent under a driver that calls its methods with any arguments
SpecRaw == InitRaw /\ [][NextRaw]_vars

\* Two agents, one after the other, are given the same two constraints by
\* update_knowledge: the first in some order, the second in the other order.
\* The first or the second constraint of a run is ingested
IngestNext ==
    /\ Len(calls) < 2
    /\ CallUpdateKnowledge
    /\ prior.used =>
          LET given == prior.calls[2 - Len(calls)]
              call == calls'[Len(calls')]
          IN call.cells = given.cells /\ call.count = given.count

\* MinesweeperAI(): the first run has returned from both calls; its safes and
\* mines are kept for comparison and a new agent with empty knowledge starts
NewAgent ==
    /\ Idle /\ Len(calls) = 2 /\ ~prior.used
    /\ prior' = [calls |-> calls, mines |-> mines, safes |-> safes, used |-> TRUE]
    /\ moves_made' = {}
    /\ mines' = {}
    /\ safes' = {}
    /\ knowledge' = <<>>
    /\ stack' = <<>>
    /\ status' = "idle"
    /\ ret' = NoRet
    /\ calls' = <<>>
    /\ before' = [moves_made |-> {}, mines |-> {}, safes |-> {}, knowledge |-> <<>>]
    /\ UNCHANGED board

NextOrder ==
    \/ IngestNext
    \/ NewAgent
    \/ UpdateKnowledgeSteps

\* two constraints ingested in one order, then in the other by a new agent
SpecOrder == InitRaw /\ [][NextOrder]_vars

\* ---------------------------------------------------------------- checks
\* the bound on the stack never cuts a recursion short
DepthBoundNotReached == Len(stack) < MaxDepth

\* C1: every add_knowledge call with the board's count for a cell that is no
\* mine returns: the recursion of update_knowledge never fails to end.
C1_AddKnowledgeReturns == status # "RecursionError"

\* the pairs of the subset rule as the claim states them
SubsetPair(kn) ==
    \E a \in DOMAIN kn : \E b \in DOMAIN kn :
        /\ ~Sentence_eq(kn[a], kn[b])
        /\ kn[a].count > 0 /\ kn[b].count > 0
        /\ kn[a].cells \subseteq kn[b].cells

\* C2: when update_knowledge returns, knowledge holds no two unequal
\* sentences, both with count > 0, with the cells of one a subset of the
\* cells of the other.
C2_NoSubsetPairAtReturn ==
    ret.op = "update_knowledge" => ~SubsetPair(knowledge)

\* a return of the outermost call after the rule made recursive calls, with
\* two sentences of positive count left
C2_Witness ==
    /\ ret.op = "update_knowledge" /\ ret.depth = 1
    /\ Len(knowledge) >= 3
    /\ Cardinality({k \in DOMAIN knowledge : knowledge[k].count > 0}) >= 2

\* C3: in a game, no cell is both in safes and in mines.
C3_SafesMinesDisjoint == safes \cap mines = {}

\* add_knowledge has returned with cells known safe and cells known mines
C3_Witness ==
    /\ Idle /\ Cardinality(moves_made) >= 2
    /\ mines # {} /\ safes \ moves_made # {}

\* C4: in a game, each time add_knowledge has returned every sentence of
\* knowledge has 0 <= count <= |cells|.
C4_CountWithinCells ==
    Idle => \A k \in DOMAIN knowledge :
               /\ 0 <= knowledge[k].count
               /\ knowledge[k].count <= Cardinality(knowledge[k].cells)

\* add_knowledge has returned with a sentence that lost a mine and still
\* has cells and a positive count
C4_Witness ==
    /\ Idle
    /\ \E k \in DOMAIN knowledge :
          /\ knowledge[k].mines # {}
          /\ knowledge[k].count > 0
          /\ knowledge[k].count < Cardinality(knowledge[k].cells)

\* C5: in a game, each time add_knowledge has returned no cell of safes or
\* mines is in the cells of a sentence of knowledge.
C5_KnownCellsResolved ==
    Idle => \A k \in DOMAIN knowledge :
               knowledge[k].cells \cap (safes \cup mines) = {}

\* add_knowledge has returned with an open sentence beside known safes
\* that are no moves made and known mines
C5_Witness ==
    /\ Idle
    /\ safes \ moves_made # {} /\ mines # {}
    /\ \E k \in DOMAIN knowledge : knowledge[k].cells # {}

\* C6: no step of any operation takes a cell out of moves_made, safes or
\* mines, or an entry out of knowledge.
C6_Monotonic ==
    [][/\ moves_made \subseteq moves_made'
       /\ safes \subseteq safes'
       /\ mines \subseteq mines'
       /\ Len(knowledge) <= Len(knowledge')]_vars

\* every collection has grown, by calls of add_knowledge, update_knowledge
\* and a mark
C6_Witness ==
    /\ Idle /\ Len(calls) = MaxCalls
    /\ \E a \in DOMAIN calls : calls[a].op = "add_knowledge"
    /\ \E a \in DOMAIN calls : calls[a].op = "update_knowledge"
    /\ \E a \in DOMAIN calls : calls[a].op \in {"mark_safe", "mark_mine"}
    /\ moves_made # {} /\ safes # {} /\ mines # {}
    /\ Len(knowledge) >= 2

\* C7: when update_knowledge(S, 0) returns every cell of S is in safes, and
\* when update_knowledge(S, |S|) returns every cell of S is in mines, from
\* any state of the agent and at any depth of the recursion.
C7_DegenerateResolved ==
    ret.op = "update_knowledge" =>
        /\ ret.count = 0 => ret.cells \subseteq safes
        /\ ret.count = Cardinality(ret.cells) => ret.cells \subseteq mines

\* update_knowledge(S, |S|) with two cells or more has returned, after an
\* earlier update_knowledge(T, 0) with two cells or more
C7_Witness ==
    /\ ret.op = "update_knowledge" /\ ret.depth = 1
    /\ ret.count = Cardinality(ret.cells) /\ ret.count >= 2
    /\ \E a \in DOMAIN calls :
          /\ a < Len(calls)
          /\ calls[a].op = "update_knowledge"
          /\ calls[a].count = 0 /\ Cardinality(calls[a].cells) >= 2

\* the two calls made so far are update_knowledge(S1, c) and
\* update_knowledge(S2, c), in either order, S1 strictly inside S2, 0 < c < |S1|
NestedPair(S1, S2) ==
    /\ Len(calls) = 2
    /\ calls[1].op = "update_knowledge" /\ calls[2].op = "update_knowledge"
    /\ calls[1].count = calls[2].count
    /\ {calls[1].cells, calls[2].cells} = {S1, S2}
    /\ S1 \subseteq S2 /\ S1 # S2
    /\ 0 < calls[1].count /\ calls[1].count < Cardinality(S1)

\* C8: update_knowledge(S1, c) and update_knowledge(S2, c) on the empty
\* agent, in either order, with S1 strictly inside S2 and 0 < c < |S1|,
\* return with every cell of S2 - S1 in safes.
C8_SubsetElimination ==
    \A S1 \in SUBSET RawCells : \A S2 \in SUBSET RawCells :
        (NestedPair(S1, S2) /\ status # "running") =>
            (status = "idle" /\ (S2 \ S1) \subseteq safes)

\* both calls have returned, the larger sentence first
C8_Witness ==
    /\ Idle
    /\ \E S1 \in SUBSET RawCells : \E S2 \in SUBSET RawCells :
          NestedPair(S1, S2) /\ calls[1].cells = S2

\* the last two calls of the driver are the same call of op
Twice(ops) ==
    /\ Len(calls) >= 2
    /\ calls[Len(calls)] = calls[Len(calls) - 1]
    /\ calls[Len(calls)].op \in ops

\* C9: mark_safe(x) or mark_mine(x) called a second time with the same cell
\* leaves safes, mines and every sentence as the first call left them: for
\* the driver's calls, and for every cell in every state between calls.
C9_MarkIdempotent ==
    /\ Twice({"mark_safe", "mark_mine"}) => AI = before
    /\ Idle => \A x \in Cells :
                 /\ mark_safe(mark_safe(KB, x), x) = mark_safe(KB, x)
                 /\ mark_mine(mark_mine(KB, x), x) = mark_mine(KB, x)

\* mark_mine(x) was called twice on a sentence that had x among its cells
C9_Witness ==
    /\ Twice({"mark_mine"})
    /\ \E k \in DOMAIN knowledge :
          /\ calls[Len(calls)].cells \subseteq knowledge[k].mines
          /\ knowledge[k].cells # {}

\* C10: update_knowledge(cells, count) called a second time with the same
\* arguments, right after the first call returned, leaves moves_made,
\* safes, mines and knowledge as they were.
C10_DuplicateNoOp ==
    (Twice({"update_knowledge"}) /\ status # "running") =>
        (status = "idle" /\ AI = before)

\* the cells of the board next to cell: at most one row and one column away
Adjacent(cell) ==
    {n \in Cells : /\ n # cell
                   /\ n[1] - cell[1] \in {-1, 0, 1}
                   /\ n[2] - cell[2] \in {-1, 0, 1}}

\* C11: add_knowledge(cell, count) passes to update_knowledge the neighbours
\* of cell on the board that are in none of moves_made, mines and safes
\* (cell itself already a move made and safe), and count less the number of
\* neighbours outside moves_made that are in mines.
C11_IngestedConstraint ==
    (/\ status = "running" /\ Len(stack) = 1 /\ stack[1].pc = "start"
     /\ calls # <<>> /\ calls[Len(calls)].op = "add_knowledge") =>
        LET cell == CHOOSE c \in Cells : calls[Len(calls)].cells = {c}
        IN /\ cell \in moves_made /\ cell \in safes
           /\ stack[1].cells =
                  {n \in Adjacent(cell) :
                      n \notin moves_made /\ n \notin mines /\ n \notin safes}
           /\ stack[1].count =
                  calls[Len(calls)].count
                    - Cardinality({n \in Adjacent(cell) :
                                      n \notin moves_made /\ n \in mines})

\* add_knowledge was called for a cell with a neighbour that is a move made,
\* one that is a known mine, one that is known safe and one that is none
C11_Witness ==
    /\ status = "running" /\ Len(stack) = 1 /\ stack[1].pc = "start"
    /\ calls # <<>> /\ calls[Len(calls)].op = "add_knowledge"
    /\ LET cell == CHOOSE c \in Cells : calls[Len(calls)].cells = {c}
       IN /\ Adjacent(cell) \cap moves_made # {}
          /\ (Adjacent(cell) \ moves_made) \cap mines # {}
          /\ (Adjacent(cell) \ moves_made) \cap safes # {}
          /\ stack[1].cells # {}

\* C12: make_safe_move returns a cell of safes that is no move made, returns
\* None exactly when safes is a subset of moves_made, and changes none of
\* moves_made, safes, mines and knowledge.
C12_SafeMove ==
    [][ret'.op = "make_safe_move" =>
          /\ AI' = AI
          /\ (ret'.value = None) <=> (safes \subseteq moves_made)
          /\ ret'.value # None =>
                (ret'.value \in safes /\ ret'.value \notin moves_made)]_vars

\* make_safe_move has returned a cell while other safe cells are moves made
C12_Witness ==
    /\ ret.op = "make_safe_move" /\ ret.value # None
    /\ Cardinality(moves_made) >= 2
    /\ Cardinality(safes \ moves_made) >= 2

\* C13: in a game, make_safe_move never returns a cell that is in mines.
C13_SafeMoveNoMine ==
    (ret.op = "make_safe_move" /\ ret.value # None) => ret.value \notin mines

\* make_safe_move has returned a cell while mines are known
C13_Witness ==
    /\ ret.op = "make_safe_move" /\ ret.value # None
    /\ mines # {}

\* C14: when make_random_move returns, the cell is on the board, is no move
\* made and is not in mines, and the agent is as it was.
C14_RandomMove ==
    [][ret'.op = "make_random_move" =>
          /\ AI' = AI
          /\ ret'.value[1] \in 0 .. Height - 1
          /\ ret'.value[2] \in 0 .. Width - 1
          /\ ret'.value \notin moves_made
          /\ ret'.value \notin mines]_vars

\* make_random_move has returned a cell while moves were made and mines are
\* known
C14_Witness ==
    /\ ret.op = "make_random_move"
    /\ moves_made # {} /\ mines # {}
    /\ ret.value \notin safes

\* C15: the sentence constructed from (cells, count) is normalised at once:
\* with count = |cells| it has no cells, the given cells as resolved mines
\* and count 0; else with count = 0 it has no cells and the given cells as
\* resolved safes; otherwise cells and count are as given and both resolved
\* sets are empty.
C15_ConstructorNormalises ==
    \A k \in DOMAIN stack :
        stack[k].pc # "start" =>
            LET cells == stack[k].cells
                count == stack[k].count
                s == stack[k].sentence
            IN /\ (count = Cardinality(cells)) =>
                     (s.cells = {} /\ s.mines = cells /\ s.count = 0)
               /\ (count # Cardinality(cells) /\ count = 0) =>
                     (s.cells = {} /\ s.safes = cells)
               /\ (count # Cardinality(cells) /\ count # 0) =>
                     (/\ s.cells = cells /\ s.count = count
                      /\ s.mines = {} /\ s.safes = {})

\* sentences of all three kinds have been constructed by calls in progress
C15_Witness ==
    /\ Len(stack) >= 2
    /\ stack[1].pc # "start" /\ stack[Len(stack)].pc # "start"
    /\ \E k \in DOMAIN stack :
          stack[k].pc # "start" /\ stack[k].count = Cardinality(stack[k].cells)
                                /\ stack[k].count > 0
    /\ \E k \in DOMAIN stack :
          stack[k].pc # "start" /\ stack[k].count \notin {0, Cardinality(stack[k].cells)}
    /\ \E k \in DOMAIN stack :
          stack[k].pc # "start" /\ stack[k].count = 0 /\ stack[k].cells # {}


\* what the claim says one marking does to one sentence
Marked(s, t, cell, op) ==
    IF cell \in s.cells
    THEN /\ t.cells = s.cells \ {cell}
         /\ IF op = "mark_mine"
            THEN t.mines = s.mines \cup {cell} /\ t.safes = s.safes
                                               /\ t.count = s.count - 1
            ELSE t.safes = s.safes \cup {cell} /\ t.mines = s.mines
                                               /\ t.count = s.count
    ELSE t = s

\* C16: marking a member of a sentence moves it from cells to the matching
\* resolved set, with count one lower for mark_mine and unchanged for
\* mark_safe; marking a non-member changes nothing; no step puts a cell back
\* into a sentence's cells, and cells, resolved mines and resolved safes of
\* every sentence are pairwise disjoint.
C16_SentenceMarking ==
    [][/\ (ret'.op \in {"mark_mine", "mark_safe"}) =>
             /\ Len(knowledge') = Len(knowledge)
             /\ \A k \in DOMAIN knowledge : \E cell \in calls'[Len(calls')].cells :
                   Marked(knowledge[k], knowledge'[k], cell, ret'.op)
       /\ \A k \in DOMAIN knowledge :
             k \in DOMAIN knowledge' /\ knowledge'[k].cells \subseteq knowledge[k].cells
       /\ \A k \in DOMAIN knowledge' :
             /\ knowledge'[k].cells \cap knowledge'[k].mines = {}
             /\ knowledge'[k].cells \cap knowledge'[k].safes = {}
             /\ knowledge'[k].mines \cap knowledge'[k].safes = {}]_vars

\* a cell was marked safe by the driver: one sentence had it and keeps cells
\* and a positive count, another did not have it
C16_Witness ==
    /\ ret.op = "mark_safe"
    /\ \E cell \in calls[Len(calls)].cells :
          /\ \E k \in DOMAIN knowledge :
                /\ cell \in knowledge[k].safes /\ cell \notin before.knowledge[k].safes
                /\ knowledge[k].cells # {} /\ knowledge[k].count > 0
          /\ \E k \in DOMAIN knowledge :
                /\ cell \notin before.knowledge[k].cells
                /\ knowledge[k].cells # {}

\* C17: the cell given to add_knowledge is in moves_made and in safes from
\* then on, so once every cell of the board that is no mine has been played
\* with its true count, in any order, safes holds every such cell.
C17_PlayedCellsSafe ==
    /\ moves_made \subseteq safes
    /\ ((Cells \ board) \subseteq moves_made) => ((Cells \ board) \subseteq safes)

\* add_knowledge has returned for the last cell of a board with mines, every
\* other cell that is no mine having been played
C17_Witness ==
    /\ Idle /\ ret.op = "update_knowledge"
    /\ Cardinality(board) >= 2
    /\ moves_made = Cells \ board

\* C18: when update_knowledge returns, no sentence of knowledge that still
\* has cells has count 0 or count equal to the number of its cells.
C18_DirectDeductionExhausted ==
    ret.op = "update_knowledge" =>
        \A k \in DOMAIN knowledge :
            knowledge[k].cells # {} =>
                /\ knowledge[k].count # 0
                /\ knowledge[k].count # Cardinality(knowledge[k].cells)

\* update_knowledge has returned after markings that used up a stored
\* sentence, which has resolved safes and resolved mines and no cells left,
\* while another sentence still has cells
C18_Witness ==
    /\ ret.op = "update_knowledge" /\ ret.depth = 1
    /\ \E k \in DOMAIN knowledge :
          /\ knowledge[k].safes # {} /\ knowledge[k].mines # {}
          /\ knowledge[k].cells = {}
    /\ \E k \in DOMAIN knowledge : knowledge[k].cells # {}

\* C19: with truthful counts for cells that are no mines, every cell in
\* mines is a mine of the board, no cell in safes is one, and every sentence
\* of knowledge has exactly count mines of the board among its cells.
C19_SoundForBoard ==
    /\ mines \subseteq board
    /\ safes \cap board = {}
    /\ \A k \in DOMAIN knowledge :
          Cardinality(knowledge[k].cells \cap board) = knowledge[k].count

\* after hints were taken in, the agent knows a mine, knows a safe cell not
\* yet played, and keeps a sentence with an undecided mine
C19_Witness ==
    /\ Idle /\ ret.op = "update_knowledge"
    /\ mines # {} /\ safes \ moves_made # {}
    /\ \E k \in DOMAIN knowledge :
          Cardinality(knowledge[k].cells) >= 2 /\ knowledge[k].count >= 1

\* some placing of mines satisfies both constraints
JointlySat(c1, c2) ==
    \E M \in SUBSET RawCells :
        /\ Cardinality(M \cap c1.cells) = c1.count
        /\ Cardinality(M \cap c2.cells) = c2.count

\* C20: two jointly satisfiable constraints ingested by update_knowledge into
\* an empty knowledge base give the same safes and the same mines in either
\* order, when both runs return.
C20_OrderIndependent ==
    (/\ Idle /\ prior.used /\ Len(calls) = 2
     /\ calls[1].cells = prior.calls[2].cells /\ calls[1].count = prior.calls[2].count
     /\ calls[2].cells = prior.calls[1].cells /\ calls[2].count = prior.calls[1].count
     /\ JointlySat(calls[1], calls[2])) =>
        (safes = prior.safes /\ mines = prior.mines)

====
